---- MODULE Spec2Model ----
(***************************************************************************)
(* Model of the virtual-memory subsystem in src/src/memory.rs: the two     *)
(* frame allocators, the four-level address translation and the example    *)
(* mapping.  Physical addresses are integers.  A virtual address is kept   *)
(* as two limbs (hi = bits 47..30, lo = bits 29..0) so that the 9/9/9/9/12 *)
(* decomposition keeps its real widths within TLC's integer range.         *)
(* Library calls (bootloader's FrameRange, x86_64's PageTableEntry::frame  *)
(* and Mapper::map_to) are modelled at their call sites in memory.rs.      *)
(* The linear mapping of physical memory is taken as the boot environment  *)
(* sets it up: the table in physical frame f is what a read at             *)
(* physical_memory_offset + f returns, so tables are keyed by frame.       *)
(* A panic halts the kernel: no operation follows it.                      *)
(***************************************************************************)
EXTENDS Integers, Sequences, FiniteSets, TLC

VARIABLES memory_map, next, issued, empty_results, phys_mem, log, halted

vars == <<memory_map, next, issued, empty_results, phys_mem, log, halted>>

\* ------------------------------------------------------------------ bounds
MaxRegions == 2
MaxFrameNumber == 2
MaxCalls == 10
MaxPagingCalls == 4

\* --------------------------------------------------------------- constants
PAGE_SIZE == 4096
ENTRY_COUNT == 512
VGA_ADDR == 753664

\* Option<T>: None is the empty sequence, Some(x) the one-element sequence.
None == <<>>
Some(x) == <<x>>

\* ------------------------------------------------------------ memory map
RegionTypes == {"Usable", "Reserved"}

\* A FrameRange as the boot loader builds it: frame numbers, start <= end
\* (start = end is an empty range).
Regions == {r \in [start_frame_number : 0..MaxFrameNumber,
                   end_frame_number : 0..MaxFrameNumber,
                   region_type : RegionTypes] :
              r.start_frame_number <= r.end_frame_number}

\* The scenario map of the specification: one usable region 0x0000-0x9000.
ScenarioMap == <<[start_frame_number |-> 0, end_frame_number |-> 9,
                  region_type |-> "Usable"]>>

MemoryMaps == UNION {[1..n -> Regions] : n \in 0..MaxRegions} \cup {ScenarioMap}

start_addr(r) == r.start_frame_number * PAGE_SIZE
end_addr(r) == r.end_frame_number * PAGE_SIZE

is_usable_any(r) == TRUE
is_usable(r) == r.region_type = "Usable"

containing_address(addr) == addr - (addr % PAGE_SIZE)

\* (from..to).step_by(4096)
RECURSIVE step_by_double(_, _)
step_by_double(from, to) ==
    IF from >= to THEN <<>>
    ELSE <<from>> \o step_by_double(from + 2 * PAGE_SIZE, to)

RECURSIVE step_by(_, _)
step_by(from, to) ==
    IF from >= to THEN <<>>
    ELSE <<from>> \o step_by(from + PAGE_SIZE, to)

RECURSIVE flat_map(_)
flat_map(ranges) ==
    IF ranges = <<>> THEN <<>>
    ELSE step_by(Head(ranges)[1], Head(ranges)[2]) \o flat_map(Tail(ranges))

usable_frames(map) ==
    LET usable_regions == SelectSeq(map, is_usable)
        addr_ranges == [i \in 1..Len(usable_regions) |->
                          <<start_addr(usable_regions[i]), end_addr(usable_regions[i])>>]
        frame_addresses == flat_map(addr_ranges)
    IN  [i \in 1..Len(frame_addresses) |-> containing_address(frame_addresses[i])]

\* Iterator::nth, zero-based.
nth_wrap(s, n) == IF s = <<>> THEN None ELSE Some(s[(n % Len(s)) + 1])
nth(s, n) == IF n < Len(s) THEN Some(s[n + 1]) ELSE None

\* The allocator state threaded through a call: the region allocator's
\* cursor and the record of what each allocator has returned so far.
AllocState == [next |-> next, issued |-> issued, empty_results |-> empty_results]

init_next == 0

\* self.next += 1
cursor_stuck(n, frame) == n
cursor_after_if_some(n, frame) == IF frame = None THEN n ELSE n + 1
cursor_after(n, frame) == n + 1

BootInfo_allocate_frame(map, a) ==
    CHOOSE out \in
      {[frame |-> frame,
        a |-> [a EXCEPT !.next = cursor_after(a.next, frame),
                        !.issued = Append(a.issued, frame)]] :
       frame \in {nth(usable_frames(map), a.next)}} : TRUE

Empty_allocate_frame_some(a) ==
    [frame |-> Some(0),
     a |-> [a EXCEPT !.empty_results = a.empty_results \cup {Some(0)}]]
Empty_allocate_frame(a) ==
    [frame |-> None,
     a |-> [a EXCEPT !.empty_results = a.empty_results \cup {None}]]

AllocKinds == {"Empty", "BootInfo"}

allocate_frame(kind, map, a) ==
    IF kind = "Empty" THEN Empty_allocate_frame(a)
    ELSE BootInfo_allocate_frame(map, a)

\* Whether another call fits the bounds of the model (the null allocator
\* keeps no state, so its calls need no bound).
CanCall(kind, a, limit) == kind = "Empty" \/ Len(a.issued) < limit

\* --------------------------------------------------------- virtual address
\* VirtAddr value = hi * 2^30 + lo, hi < 2^18, lo < 2^30.
VA(hi, lo) == [hi |-> hi, lo |-> lo]

p4_index(addr) == (addr.hi \div ENTRY_COUNT) % ENTRY_COUNT
p3_index(addr) == addr.hi % ENTRY_COUNT
p2_index(addr) == (addr.lo \div (PAGE_SIZE * ENTRY_COUNT)) % ENTRY_COUNT
p1_index(addr) == (addr.lo \div PAGE_SIZE) % ENTRY_COUNT
page_offset(addr) == addr.lo % PAGE_SIZE

\* Page::containing_address
page_containing_address(addr) == VA(addr.hi, addr.lo - (addr.lo % PAGE_SIZE))

table_indexes(addr) ==
    <<p4_index(addr), p3_index(addr), p2_index(addr), p1_index(addr)>>

\* ------------------------------------------------------------ page tables
\* Physical memory holding page tables: the entries that are not all-zero,
\* keyed by <<table frame address, index>>.
UnusedEntry == [addr |-> 0, flags |-> {}]

read_entry(mem, frame, index) ==
    IF <<frame, index>> \in DOMAIN mem THEN mem[<<frame, index>>] ELSE UnusedEntry

write_entry(mem, frame, index, e) ==
    [k \in DOMAIN mem \cup {<<frame, index>>} |->
        IF k = <<frame, index>> THEN e ELSE mem[k]]

\* PageTable::zero
zero(mem, frame) == [k \in {j \in DOMAIN mem : j[1] # frame} |-> mem[k]]

is_unused(e) == e = UnusedEntry

\* PageTableEntry::frame
entry_frame_huge_ok(e) ==
    IF "PRESENT" \notin e.flags THEN [tag |-> "FrameNotPresent", frame |-> 0]
    ELSE [tag |-> "Ok", frame |-> containing_address(e.addr)]
entry_frame(e) ==
    IF "PRESENT" \notin e.flags THEN [tag |-> "FrameNotPresent", frame |-> 0]
    ELSE IF "HUGE_PAGE" \in e.flags THEN [tag |-> "HugeFrame", frame |-> 0]
    ELSE [tag |-> "Ok", frame |-> containing_address(e.addr)]

\* Cr3::read: the frame of the active level-4 table.
Cr3_read == 65536

\* Outcome of a translation: the returned Option, or a panic.
Returned(v) == [panicked |-> FALSE, value |-> v]
Panicked == [panicked |-> TRUE, value |-> None]

final_address_no_offset(frame, addr) == frame
final_address(frame, addr) == frame + page_offset(addr)

RECURSIVE walk(_, _, _, _)
walk(mem, frame, indexes, addr) ==
    IF indexes = <<>> THEN Returned(Some(final_address(frame, addr)))
    ELSE CHOOSE out \in
           {IF r.tag = "Ok" THEN walk(mem, r.frame, Tail(indexes), addr)
            ELSE IF r.tag = "FrameNotPresent" THEN Returned(None)
            ELSE Panicked :
            r \in {entry_frame(read_entry(mem, frame, Head(indexes)))}} : TRUE

translate_addr_inner(mem, addr) == walk(mem, Cr3_read, table_indexes(addr), addr)

translate_addr(mem, addr) == translate_addr_inner(mem, addr)

\* ------------------------------------------------------- example mapping
example_frame == containing_address(VGA_ADDR)

example_flags_not_present == {"WRITABLE"}
example_flags == {"PRESENT", "WRITABLE"}

\* The flags map_to gives the parent tables it creates or passes through.
parent_table_flags(flags) == flags \cap {"PRESENT", "WRITABLE", "USER_ACCESSIBLE"}

\* In the operators below a value that is used more than once is bound with
\* "x \in {e}", which evaluates e once.

\* create_next_table, after the entry is set: the entry must lead to a table
\* (present, not a huge page); a table just created is zeroed.
enter_table(mem, table, index, created, a) ==
    CHOOSE out \in
      {IF fr.tag = "HugeFrame"
       THEN [status |-> "ParentEntryHugePage", mem |-> mem, a |-> a, table |-> 0]
       ELSE IF fr.tag = "FrameNotPresent"
       THEN [status |-> "Panic", mem |-> mem, a |-> a, table |-> 0]
       ELSE [status |-> "Ok",
             mem |-> IF created THEN zero(mem, fr.frame) ELSE mem,
             a |-> a, table |-> fr.frame] :
       fr \in {entry_frame(read_entry(mem, table, index))}} : TRUE

\* create_next_table on an unused entry, given the allocator's answer r.
install_table(mem, table, index, insert_flags, r) ==
    IF r.frame = None
    THEN [status |-> "FrameAllocationFailed", mem |-> mem, a |-> r.a, table |-> 0]
    ELSE enter_table(write_entry(mem, table, index,
                                 [addr |-> Head(r.frame), flags |-> insert_flags]),
                     table, index, TRUE, r.a)

\* Mapper::map_to, per parent level: the next-level table behind entry
\* `index` of `table`.  An unused entry gets a frame of the allocator; an
\* entry in use gets the parent flags added.
create_next_table(mem, table, index, insert_flags, kind, map, a) ==
    CHOOSE out \in
      {IF is_unused(entry)
       THEN CHOOSE o \in {install_table(mem, table, index, insert_flags, r) :
                            r \in {allocate_frame(kind, map, a)}} : TRUE
       ELSE enter_table(write_entry(mem, table, index,
                                    [entry EXCEPT !.flags = @ \cup insert_flags]),
                        table, index, FALSE, a) :
       entry \in {read_entry(mem, table, index)}} : TRUE

\* Mapper::map_to, the descent from the level-4 table: one create_next_table
\* per parent index, stopping at the first error.
RECURSIVE descend(_, _, _, _, _)
descend(st, indexes, insert_flags, kind, map) ==
    IF indexes = <<>> \/ st.status # "Ok" THEN st
    ELSE CHOOSE out \in
           {descend(n, Tail(indexes), insert_flags, kind, map) :
            n \in {create_next_table(st.mem, st.table, Head(indexes),
                                     insert_flags, kind, map, st.a)}} : TRUE

\* Mapper::map_to, the level-1 table reached: the page's entry is set unless
\* it is in use.
set_page_entry(t1, page, frame, flags) ==
    IF t1.status # "Ok" THEN t1
    ELSE IF ~is_unused(read_entry(t1.mem, t1.table, p1_index(page)))
    THEN [t1 EXCEPT !.status = "PageAlreadyMapped"]
    ELSE [t1 EXCEPT !.mem = write_entry(t1.mem, t1.table, p1_index(page),
                                        [addr |-> frame, flags |-> flags])]

\* Mapper::map_to on the OffsetPageTable rooted at the active level-4 table.
map_to(mem, page, frame, flags, kind, map, a) ==
    CHOOSE out \in
      {set_page_entry(t1, page, frame, flags) :
       t1 \in {descend([status |-> "Ok", mem |-> mem, a |-> a, table |-> Cr3_read],
                       <<p4_index(page), p3_index(page), p2_index(page)>>,
                       parent_table_flags(flags), kind, map)}} : TRUE

\* .expect("map_to failed"): whether the call panics on this result.
expect_never_panics(status) == FALSE
expect_panics(status) == status # "Ok"

create_example_mapping(mem, page, kind, map, a) ==
    CHOOSE out \in
      {[status |-> r.status, mem |-> r.mem, a |-> r.a,
        panicked |-> expect_panics(r.status)] :
       r \in {map_to(mem, page, example_frame, example_flags, kind, map, a)}} : TRUE

\* --------------------------------------------------- boot-time hierarchy
\* The tables the boot environment built before this subsystem runs, along
\* index 0 of each level: `depth` tables below the level-4 table, and the
\* entry `leaf` at index 0 of the deepest one ("U" unused, "H" huge page,
\* "P" a mapped 4KiB frame, at level 1 only).
BootTable(level) == Cr3_read + (4 - level) * PAGE_SIZE
BootDataFrame == Cr3_read + 4 * PAGE_SIZE

TableEntry(frame) == [addr |-> frame, flags |-> {"PRESENT", "WRITABLE"}]
HugeEntry(frame) == [addr |-> frame, flags |-> {"PRESENT", "WRITABLE", "HUGE_PAGE"}]

BootShapes == {sh \in [depth : 0..3, leaf : {"U", "H", "P"}] :
                 sh.leaf = "P" => sh.depth = 3}

BootMem(sh) ==
    LET links == {<<BootTable(l), 0>> : l \in {l \in 1..4 : l > 4 - sh.depth}}
        leafKey == <<BootTable(4 - sh.depth), 0>>
        leaves == IF sh.leaf = "U" THEN {} ELSE {leafKey}
        vga == IF sh.depth = 3 THEN {<<BootTable(1), p1_index(VA(0, VGA_ADDR))>>} ELSE {}
    IN  [k \in links \cup leaves \cup vga |->
            IF k \in links THEN TableEntry(k[1] + PAGE_SIZE)
            ELSE IF k \in leaves
                 THEN (IF sh.leaf = "H" THEN HugeEntry(BootDataFrame)
                       ELSE TableEntry(BootDataFrame))
            ELSE TableEntry(VGA_ADDR)]

\* Frames in use when the subsystem starts: the boot tables, the data frame
\* and the text-display frame.
BootUsedFrames == {BootTable(l) : l \in 1..4} \cup {BootDataFrame, example_frame}

\* The contract of BootInfoFrameAllocator::init (an unsafe fn): the frames
\* the map tags usable are really unused, and each is listed once.
ValidMap(map) ==
    LET fs == usable_frames(map)
    IN  /\ \A i, j \in 1..Len(fs) : i # j => fs[i] # fs[j]
        /\ \A i \in 1..Len(fs) : fs[i] \notin BootUsedFrames

\* ------------------------------------------------------ sample addresses
\* The addresses kernel_main maps and translates.
\* 0x0, 0x201008 and 0x0100_0020_1a10 (p4 = 2, p2 = 1, p1 = 1); 0xb8000.
MappedAddrs == {VA(0, 0), VA(0, 2101256), VA(1024, 2103824)}
SamplePages == {page_containing_address(v) : v \in MappedAddrs}
\* Translated: those addresses, the text-display address, and the last byte
\* of each mapped page.
TranslateAddrs == MappedAddrs \cup {VA(0, VGA_ADDR)} \cup
                  {VA(pg.hi, pg.lo + PAGE_SIZE - 1) : pg \in SamplePages}

\* ------------------------------------------------------------ operations
\* log: the last operation, with `after_map` the page of the mapping created
\* by the operation just before it (None when that was no successful mapping).
LogEntry(op, kind, page, status, result, after) ==
    [op |-> op, kind |-> kind, page |-> page, status |-> status,
     result |-> result, after_map |-> after]

JustMapped == IF log.op = "map" /\ log.status = "Ok" THEN Some(log.page) ELSE None

NoOp == LogEntry("boot", "-", VA(0, 0), "Ok", None, None)

SetAlloc(a) ==
    /\ next' = a.next
    /\ issued' = a.issued
    /\ empty_results' = a.empty_results

AllocateFrameWithin(limit) ==
    /\ ~halted
    /\ CanCall("BootInfo", AllocState, limit)
    /\ \E r \in {allocate_frame("BootInfo", memory_map, AllocState)} :
           /\ SetAlloc(r.a)
           /\ log' = LogEntry("alloc", "BootInfo", VA(0, 0), "Ok", r.frame, None)
    /\ UNCHANGED <<memory_map, phys_mem, halted>>

AllocateFrame == AllocateFrameWithin(MaxCalls)

PagingAllocateFrame == AllocateFrameWithin(MaxPagingCalls)

EmptyAllocate ==
    /\ ~halted
    /\ \E r \in {allocate_frame("Empty", memory_map, AllocState)} :
           /\ SetAlloc(r.a)
           /\ log' = LogEntry("alloc", "Empty", VA(0, 0), "Ok", r.frame, None)
    /\ UNCHANGED <<memory_map, phys_mem, halted>>

CreateExampleMapping(page, kind) ==
    /\ ~halted
    \* A mapping starts while the allocator's calls are within the bound; it
    \* makes at most three more.
    /\ CanCall(kind, AllocState, MaxPagingCalls)
    /\ \E r \in {create_example_mapping(phys_mem, page, kind, memory_map, AllocState)} :
           /\ SetAlloc(r.a)
           /\ phys_mem' = r.mem
           /\ halted' = r.panicked
           /\ log' = LogEntry("map", kind, page, r.status, None, None)
    /\ UNCHANGED memory_map

Translate(addr) ==
    /\ ~halted
    /\ \E r \in {translate_addr(phys_mem, addr)} :
           /\ halted' = r.panicked
           /\ log' = LogEntry("translate", "-", addr,
                              IF r.panicked THEN "Panic" ELSE "Ok", r.value, JustMapped)
    /\ UNCHANGED <<memory_map, next, issued, empty_results, phys_mem>>

InitAlloc ==
    /\ next = init_next
    /\ issued = <<>>
    /\ empty_results = {}
    /\ log = NoOp
    /\ halted = FALSE

\* The allocators alone, over every memory map.
InitAny ==
    /\ memory_map \in MemoryMaps
    /\ phys_mem = BootMem([depth |-> 3, leaf |-> "P"])
    /\ InitAlloc

NextAlloc ==
    \/ AllocateFrame
    \/ EmptyAllocate

SpecAlloc == InitAny /\ [][NextAlloc]_vars

\* The whole subsystem after boot: a memory map that keeps the allocator's
\* contract and one of the boot-time hierarchies.
\* Regions that contribute no frame (reserved or empty ones) are left out
\* here: they change nothing the allocator returns.
PagingMaps == {m \in MemoryMaps :
                 /\ ValidMap(m)
                 /\ \A i \in 1..Len(m) : /\ is_usable(m[i])
                                         /\ start_addr(m[i]) < end_addr(m[i])}

Init ==
    /\ memory_map \in PagingMaps
    /\ \E sh \in BootShapes : phys_mem = BootMem(sh)
    /\ InitAlloc

Next ==
    \/ PagingAllocateFrame
    \/ EmptyAllocate
    \/ \E page \in SamplePages, kind \in AllocKinds : CreateExampleMapping(page, kind)
    \/ \E addr \in TranslateAddrs : Translate(addr)

Spec == Init /\ [][Next]_vars

\* ================================================================ claims
\* Helpers of the claims, written from the claims' words.

\* Frame numbers some usable region of the map covers.
CoveredBy(r) == {n \in 0..r.end_frame_number :
                   r.start_frame_number <= n /\ n < r.end_frame_number}

UsableRegionsDisjoint(map) ==
    \A i, j \in 1..Len(map) :
        (i # j /\ map[i].region_type = "Usable" /\ map[j].region_type = "Usable")
            => CoveredBy(map[i]) \cap CoveredBy(map[j]) = {}

\* N: the total number of usable 4KiB frames of the map, region by region.
RECURSIVE TotalUsableFrames(_)
TotalUsableFrames(map) ==
    IF map = <<>> THEN 0
    ELSE (IF Head(map).region_type = "Usable"
          THEN Cardinality(CoveredBy(Head(map))) ELSE 0)
         + TotalUsableFrames(Tail(map))

\* The k-th frame (k = 1, 2, ...) of the usable regions taken in map order.
RECURSIVE ExpectedKth(_, _)
ExpectedKth(map, k) ==
    IF map = <<>> THEN None
    ELSE LET r == Head(map)
             c == IF r.region_type = "Usable" THEN Cardinality(CoveredBy(r)) ELSE 0
         IN  IF k <= c THEN Some((r.start_frame_number + k - 1) * 4096)
             ELSE ExpectedKth(Tail(map), k - c)

IssuedFrames == {i \in 1..Len(issued) : issued[i] # None}

\* C1 as stated: for any memory map, no two calls of the region allocator
\* that return a frame return the same frame.
C1_NoFrameIssuedTwice ==
    \A i, j \in IssuedFrames : i # j => issued[i] # issued[j]

\* C1 as amended: for a memory map whose usable regions are pairwise
\* disjoint, the frames the region allocator hands out are pairwise distinct.
C1_DistinctOnDisjointRegions ==
    UsableRegionsDisjoint(memory_map) => C1_NoFrameIssuedTwice

C1_Witness ==
    /\ Len(memory_map) = 2
    /\ \A i \in 1..2 : memory_map[i].region_type = "Usable"
    /\ CoveredBy(memory_map[1]) # {} /\ CoveredBy(memory_map[2]) # {}
    /\ UsableRegionsDisjoint(memory_map)
    /\ Cardinality(IssuedFrames) = 2

\* C2: every frame the region allocator returns is 4KiB-aligned and lies in
\* [start, end) of a region of the memory map tagged Usable.
C2_FramesAlignedInUsableRegion ==
    \A i \in IssuedFrames :
        LET f == issued[i][1]
        IN  /\ f % 4096 = 0
            /\ \E k \in 1..Len(memory_map) :
                  /\ memory_map[k].region_type = "Usable"
                  /\ memory_map[k].start_frame_number * 4096 <= f
                  /\ f < memory_map[k].end_frame_number * 4096

C2_Witness ==
    /\ \E k \in 1..Len(memory_map) :
          memory_map[k].region_type = "Reserved" /\ CoveredBy(memory_map[k]) # {}
    /\ \E k \in 1..Len(memory_map) :
          memory_map[k].region_type = "Usable" /\ memory_map[k].start_frame_number > 0
    /\ IssuedFrames # {}

\* C3: with N the number of usable frames of the map, calls 1..N return a
\* frame, call N+1 and every later call return None; once a call has
\* returned None no later call returns a frame.
C3_ExhaustionSticky ==
    /\ \A k \in 1..Len(issued) :
          (k <= TotalUsableFrames(memory_map)) <=> (issued[k] # None)
    /\ \A i, j \in 1..Len(issued) :
          (i < j /\ issued[i] = None) => issued[j] = None

C3_Witness ==
    /\ TotalUsableFrames(memory_map) >= 2
    /\ Len(issued) >= TotalUsableFrames(memory_map) + 2
    /\ issued[Len(issued)] = None

\* C4: the k-th call returns the k-th frame of the usable regions taken in
\* map order and stepped by 4096; for the map [{0x0000-0x9000, usable}] the
\* calls return 0x0000, 0x1000, 0x2000, ..., the ninth 0x8000, the tenth None.
C4_KthCallKthFrame ==
    /\ \A k \in 1..Len(issued) : issued[k] = ExpectedKth(memory_map, k)
    /\ memory_map = ScenarioMap =>
          /\ Len(issued) >= 1 => issued[1] = Some(0)
          /\ Len(issued) >= 2 => issued[2] = Some(4096)
          /\ Len(issued) >= 3 => issued[3] = Some(8192)
          /\ Len(issued) >= 9 => issued[9] = Some(32768)
          /\ Len(issued) >= 10 => issued[10] = None

C4_Witness == memory_map = ScenarioMap /\ Len(issued) = 10

\* C10: the cursor is 0 after init and grows by one with every call, frame
\* or None: after k calls it equals k.
C10_CursorCountsCalls == next = Len(issued)

C10_Witness ==
    /\ Len(issued) >= 3
    /\ issued[1] # None
    /\ issued[Len(issued) - 1] = None
    /\ issued[Len(issued)] = None

\* C9: the null allocator returns None on every call, whatever was called
\* before.
C9_EmptyAlwaysNone ==
    /\ empty_results \subseteq {None}
    /\ (log.op = "alloc" /\ log.kind = "Empty") => log.result = None

C9_Witness ==
    /\ log.op = "alloc" /\ log.kind = "Empty"
    /\ empty_results # {}
    /\ IssuedFrames # {}
    /\ \A sh \in BootShapes : phys_mem # BootMem(sh)

\* ---- the manual walk of the hierarchy, entry by entry
IsPresent(e) == "PRESENT" \in e.flags
IsHuge(e) == "PRESENT" \in e.flags /\ "HUGE_PAGE" \in e.flags
IsTable(e) == IsPresent(e) /\ ~IsHuge(e)

Entry4(mem, addr) == read_entry(mem, Cr3_read, p4_index(addr))
Entry3(mem, addr) == read_entry(mem, Entry4(mem, addr).addr, p3_index(addr))
Entry2(mem, addr) == read_entry(mem, Entry3(mem, addr).addr, p2_index(addr))
Entry1(mem, addr) == read_entry(mem, Entry2(mem, addr).addr, p1_index(addr))

\* How many of the levels 4, 3, 2, 1 (in that order) hold a present,
\* non-huge entry before the walk of addr meets anything else.
WalkDepth(mem, addr) ==
    IF ~IsTable(Entry4(mem, addr)) THEN 0
    ELSE IF ~IsTable(Entry3(mem, addr)) THEN 1
    ELSE IF ~IsTable(Entry2(mem, addr)) THEN 2
    ELSE IF ~IsTable(Entry1(mem, addr)) THEN 3
    ELSE 4

\* The entry the walk of addr stops at (the level-1 entry when it completes).
StopEntry(mem, addr) ==
    LET d == WalkDepth(mem, addr)
    IN  IF d = 0 THEN Entry4(mem, addr)
        ELSE IF d = 1 THEN Entry3(mem, addr)
        ELSE IF d = 2 THEN Entry2(mem, addr)
        ELSE Entry1(mem, addr)

\* C5: translate_addr equals the manual walk: None when the entry read at
\* some level is not present, the level-1 frame's base plus the 12-bit page
\* offset when all four entries are present and none is huge.
C5_TranslateMatchesManualWalk ==
    log.op = "translate" =>
        LET addr == log.page
            d == WalkDepth(phys_mem, addr)
        IN  /\ (d < 4 /\ ~IsPresent(StopEntry(phys_mem, addr)))
                  => (log.status = "Ok" /\ log.result = None)
            /\ d = 4
                  => (/\ log.status = "Ok"
                      /\ log.result = Some(Entry1(phys_mem, addr).addr + (addr.lo % 4096)))

C5_Witness ==
    /\ log.op = "translate"
    /\ WalkDepth(phys_mem, log.page) = 4
    /\ log.page.lo % 4096 # 0
    /\ log.result # None

C5_WitnessMiss ==
    /\ log.op = "translate"
    /\ WalkDepth(phys_mem, log.page) = 2
    /\ log.result = None /\ log.status = "Ok"

\* C6: a walk that reaches a huge-page entry (every higher entry present and
\* not huge) panics; it returns neither an address nor None.
C6_HugePageAborts ==
    (log.op = "translate" /\ WalkDepth(phys_mem, log.page) < 4
                          /\ IsHuge(StopEntry(phys_mem, log.page)))
        => (log.status = "Panic" /\ halted)

C6_Witness ==
    /\ log.op = "translate"
    /\ WalkDepth(phys_mem, log.page) = 2
    /\ IsHuge(StopEntry(phys_mem, log.page))
    /\ halted

TablesOnPath(mem, page) ==
    LET d == WalkDepth(mem, page) IN IF d > 3 THEN 3 ELSE d

\* The first entry on the path that is no table is an unused one: the
\* tables below it are missing and have to be allocated.
MissingTables(mem, page) ==
    IF TablesOnPath(mem, page) < 3 /\ is_unused(StopEntry(mem, page))
    THEN 3 - TablesOnPath(mem, page) ELSE 0

SlotOccupied(mem, page) ==
    TablesOnPath(mem, page) = 3 /\ ~is_unused(Entry1(mem, page))

\* Frames the allocator can still supply.
FramesLeft(kind) ==
    IF kind = "Empty" THEN 0
    ELSE IF TotalUsableFrames(memory_map) > Len(issued)
         THEN TotalUsableFrames(memory_map) - Len(issued) ELSE 0

\* C8: create_example_mapping panics when the level-1 slot of the page is
\* occupied and when a missing intermediate table cannot be allocated; with
\* EmptyFrameAllocator it returns only if every intermediate table exists
\* and the slot is free.
C8_MappingFailureAborts ==
    [][ (~halted /\ log'.op = "map") =>
          LET page == log'.page
              kind == log'.kind
              aborted == halted' /\ log'.status # "Ok"
          IN  /\ SlotOccupied(phys_mem, page) => aborted
              /\ MissingTables(phys_mem, page) > FramesLeft(kind) => aborted
              /\ (kind = "Empty" /\ ~aborted)
                    => (/\ TablesOnPath(phys_mem, page) = 3
                        /\ is_unused(Entry1(phys_mem, page)))
              /\ aborted \/ (log'.status = "Ok" /\ ~halted') ]_vars

C8_Witness ==
    /\ halted
    /\ log.op = "map" /\ log.kind = "BootInfo"
    /\ log.status = "FrameAllocationFailed"
    /\ IssuedFrames # {}

C8_WitnessOccupied ==
    /\ halted
    /\ log.op = "map"
    /\ log.status = "PageAlreadyMapped"

C8_WitnessEmptyOk ==
    /\ ~halted
    /\ log.op = "map" /\ log.kind = "Empty" /\ log.status = "Ok"

====
